---- MODULE Spec2Model ----
(***************************************************************************)
(* Fitness Katello: the express route handlers of server.js over the       *)
(* SQLite schema of db.js (users, challenges, challenge_participants,      *)
(* exercise_logs), with the session identity and the response of each      *)
(* request.  A synchronous handler is one step; a handler that awaits      *)
(* bcrypt is two steps, with its continuation held in `pending`.           *)
(***************************************************************************)
EXTENDS Integers, Sequences, FiniteSets, Bags, TLC

\* ------------------------------------------------------------------ bounds
MaxUsers == 3        \* users.id never exceeds this (AUTOINCREMENT is capped)
NumMembers == 2      \* registered, logged-in users at the start of SpecChallenges
MaxChallenges == 2   \* challenges.id never exceeds this
MaxLogs == 2         \* rows of exercise_logs
MaxPending == 2      \* handlers suspended at an await at the same time

\* ------------------------------------------------------------ input values
NULL == "NULL"
\* the form of POST /registrar
RegistrarBodies ==
  {[name |-> <<" ">>, email |-> <<"a">>, password |-> "p1"],
   [name |-> <<"A">>, email |-> <<" ">>, password |-> "p1"],
   [name |-> <<"A">>, email |-> <<"a">>, password |-> ""],
   [name |-> <<"A">>, email |-> <<"a">>, password |-> "p1"],
   [name |-> <<" ", "A">>, email |-> <<" ", "A", " ">>, password |-> "p2"],
   [name |-> <<"A">>, email |-> <<"b">>, password |-> "p1"]}
\* the form of POST /login
LoginBodies ==
  {[email |-> <<>>, password |-> "p1"],
   [email |-> <<"a">>, password |-> "p1"],
   [email |-> <<" ", "A", " ">>, password |-> "p2"],
   [email |-> <<"b">>, password |-> "p1"],
   [email |-> <<"b">>, password |-> ""]}
TempPasswords == {"p1", "p2"}        \* values of crypto.randomBytes(4) in hex
\* the form of POST /challenges/novo: goal_count is Number(req.body.goal_count || 0),
\* group_goal is <<>> when the field is absent
NovoBodies ==
  {[description |-> "", goal_count |-> 1, group_goal |-> <<>>],
   [description |-> "desc", goal_count |-> 0, group_goal |-> <<>>],
   [description |-> "desc", goal_count |-> 1, group_goal |-> <<0>>],
   [description |-> "desc", goal_count |-> 1, group_goal |-> <<5>>],
   [description |-> "desc", goal_count |-> -2, group_goal |-> <<>>]}
AddEmails == {<<>>, <<" ", "A", " ">>, <<"b">>, <<"c">>}   \* the email field of /adicionar
Activities == {"", "run"}
UserGoals == {-1, 0, 2}              \* Number(req.body.goal_exercises || 0)
InviteCodes == {"c0de01", "c0de02"}  \* values of crypto.randomBytes(6) in hex

ChallengeIds == 1..MaxChallenges

VARIABLES
  users,                    \* rows of table users
  challenges,               \* rows of table challenges
  challenge_participants,   \* bag of rows (user_id, challenge_id)
  exercise_logs,            \* bag of rows (user_id, challenge_id, count)
  sqlite_sequence,          \* AUTOINCREMENT: the largest id ever given, per table
  session,                  \* req.session of each browser session
  pending,                  \* bag of handlers suspended at an await
  resp                      \* the response of the last finished request

dbvars == <<users, challenges, challenge_participants, exercise_logs, sqlite_sequence>>
vars == <<users, challenges, challenge_participants, exercise_logs, sqlite_sequence,
          session, pending, resp>>

\* ------------------------------------------------------- string functions
Whitespace == {" "}

RECURSIVE TrimStart(_)
TrimStart(s) ==
  IF s # <<>> /\ Head(s) \in Whitespace THEN TrimStart(Tail(s)) ELSE s

RECURSIVE TrimEnd(_)
TrimEnd(s) ==
  IF s # <<>> /\ s[Len(s)] \in Whitespace
    THEN TrimEnd(SubSeq(s, 1, Len(s) - 1))
    ELSE s

Trim(s) == TrimEnd(TrimStart(s))

LowerChar(c) == CASE c = "A" -> "a" [] c = "B" -> "b" [] OTHER -> c

RECURSIVE ToLowerCase(_)
ToLowerCase(s) ==
  IF s = <<>> THEN <<>> ELSE <<LowerChar(Head(s))>> \o ToLowerCase(Tail(s))

\* (req.body.email || "").trim().toLowerCase()
NormalizeEmail(raw) == ToLowerCase(Trim(raw))

\* bcrypt.hash / bcrypt.compare: a hash matches the password it was made of
BcryptHash(password) == [alg |-> "bcrypt", of |-> password]
BcryptCompare(password, hash) == hash = BcryptHash(password)

\* ------------------------------------------------------------- responses
NoFlash == <<>>
Flash(type, message) == <<type, message>>
Redirect(op, to, flash) == [op |-> op, kind |-> "redirect", to |-> to, flash |-> flash, data |-> <<>>]
Render(op, view, flash, data) == [op |-> op, kind |-> "render", to |-> view, flash |-> flash, data |-> data]
Throw(op, err) == [op |-> op, kind |-> "throw", to |-> err, flash |-> NoFlash, data |-> <<>>]
\* `/challenges/${challengeId}`: the path, without the id the request already names
ChallengePath(id) == "/challenges/:id"

\* --------------------------------------------------------------- session
NoSession == [userId |-> 0, userName |-> "", role |-> "", userEmail |-> <<>>]
SessionOf(user) ==
  [userId |-> user.id, userName |-> user.name, role |-> user.role, userEmail |-> user.email]
\* requireAuth: `!req.session.userId` sends the request to /login
requireAuth(s) == session[s].userId # 0

\* ------------------------------------------------------------ the tables
UsersByEmail(email) == {u \in users : u.email = email}
UsersById(id) == {u \in users : u.id = id}
ChallengesById(id) == {c \in challenges : c.id = id}
ChallengesByCode(code) == {c \in challenges : c.invite_code = code}
\* .get() returns the first row of the result: the one with the smallest rowid
FirstRow(rows) == CHOOSE r \in rows : \A q \in rows : r.id <= q.id

ParticipantRow(uid, cid) == [user_id |-> uid, challenge_id |-> cid]
LogRow(uid, cid, count) == [user_id |-> uid, challenge_id |-> cid, count |-> count]
\* SELECT id FROM challenge_participants WHERE user_id = ? AND challenge_id = ?
IsParticipant(uid, cid) == BagIn(ParticipantRow(uid, cid), challenge_participants)
ParticipantsOf(cid) == {p \in BagToSet(challenge_participants) : p.challenge_id = cid}
JoinedChallenges(uid) ==
  {p.challenge_id : p \in {q \in BagToSet(challenge_participants) : q.user_id = uid}}

\* the constraints of the schema
UsersEmailUniqueDropped(email) == TRUE
UsersEmailUnique(email) == UsersByEmail(email) = {}
ParticipantsUnique(uid, cid) == ~BagIn(ParticipantRow(uid, cid), challenge_participants)
ForeignKeyUser(uid) == UsersById(uid) # {}
ForeignKeyChallenge(cid) == ChallengesById(cid) # {}

\* ------------------------------------------------------------ percentages
Min(a, b) == IF a <= b THEN a ELSE b
\* Math.round(num / den): the nearest integer, a half rounded towards +Infinity
MathRound(num, den) ==
  IF den > 0 THEN (2 * num + den) \div (2 * den)
             ELSE (2 * (0 - num) + (0 - den)) \div (2 * (0 - den))
\* goal ? Math.min(Math.round((total / goal) * 100), 100) : 0
ProgressPercent(total, goal) ==
  IF goal # 0 THEN Min(MathRound(total * 100, goal), 100) ELSE 0
\* userGoal > 0 ? Math.min(Math.round((count / userGoal) * 100), 100) : 0
GoalProgress(count, userGoal) ==
  IF userGoal > 0 THEN Min(MathRound(count * 100, userGoal), 100) ELSE 0

\* ------------------------------------------------------------- aggregates
RECURSIVE SumOver(_, _)
SumOver(S, f) ==
  IF S = {} THEN 0
  ELSE LET x == CHOOSE y \in S : TRUE IN f[x] + SumOver(S \ {x}, f)

LogRowsOf(uid, cid) ==
  {e \in BagToSet(exercise_logs) : e.user_id = uid /\ e.challenge_id = cid}
LogRowsOfUser(uid) == {e \in BagToSet(exercise_logs) : e.user_id = uid}
\* SELECT COUNT(id) FROM exercise_logs WHERE user_id = ? AND challenge_id = ?
UserTotal(uid, cid) ==
  SumOver(LogRowsOf(uid, cid), [e \in LogRowsOf(uid, cid) |-> CopiesIn(e, exercise_logs)])
\* SELECT COUNT(id) FROM exercise_logs WHERE user_id = ?
UserExerciseCount(uid) ==
  SumOver(LogRowsOfUser(uid), [e \in LogRowsOfUser(uid) |-> CopiesIn(e, exercise_logs)])

\* The leaderboard query: users JOIN challenge_participants cp LEFT JOIN exercise_logs e
\* ON e.user_id = u.id AND e.challenge_id = cp.challenge_id WHERE cp.challenge_id = ?
\* GROUP BY u.id, with COUNT(e.id): one group per user that has a participant row, and
\* per participant row of the user one joined row for each of the user's logs there.
LeaderboardJoinAnyChallenge(uid, cid) == LogRowsOfUser(uid)
LeaderboardJoin(uid, cid) ==
  {e \in BagToSet(exercise_logs) : e.user_id = uid /\ e.challenge_id = cid}
LeaderboardRows(cid) ==
  LET members == {u \in users : BagIn(ParticipantRow(u.id, cid), challenge_participants)}
  IN  [uid \in {u.id : u \in members} |->
         CopiesIn(ParticipantRow(uid, cid), challenge_participants)
           * SumOver(LeaderboardJoin(uid, cid),
                     [e \in LeaderboardJoin(uid, cid) |-> CopiesIn(e, exercise_logs)])]

\* ------------------------------------------------------------------- Init
LegacyUser ==
  [id |-> 1, name |-> <<"A">>, email |-> <<"a">>, password_hash |-> BcryptHash("p1"),
   role |-> "participant", goal_exercises |-> 0]
\* a row written before initDb added the column invite_code (ALTER TABLE: NULL)
LegacyChallenge ==
  [id |-> 1, creator_id |-> 1, status |-> "active", goal_count |-> 2, invite_code |-> NULL]

EmptyTables ==
  /\ users = {}
  /\ challenges = {}
  /\ challenge_participants = EmptyBag
  /\ sqlite_sequence = [users |-> 0, challenges |-> 0]

\* the accounts: one browser session, not logged in, over an empty database or over one
\* that an earlier version of the program wrote
InitAccounts ==
  /\ session = [s \in {1} |-> NoSession]
  /\ pending = EmptyBag
  /\ exercise_logs = EmptyBag
  /\ resp = Render("GET /login", "login", NoFlash, <<>>)
  /\ \/ EmptyTables
     \/ /\ users = {LegacyUser}
        /\ challenges = {LegacyChallenge}
        /\ challenge_participants \in {EmptyBag, SetToBag({ParticipantRow(1, 1)})}
        /\ sqlite_sequence = [users |-> 1, challenges |-> 1]

\* the challenges: NumMembers registered users, each logged in from a session of its own
MemberEmail(i) == CASE i = 1 -> <<"a">> [] i = 2 -> <<"b">> [] OTHER -> <<"c">>
Member(i) ==
  [id |-> i, name |-> <<"A">>, email |-> MemberEmail(i), password_hash |-> BcryptHash("p1"),
   role |-> "participant", goal_exercises |-> 0]

InitChallenges ==
  /\ users = {Member(i) : i \in 1..NumMembers}
  /\ session = [s \in 1..NumMembers |-> SessionOf(Member(s))]
  /\ pending = EmptyBag
  /\ exercise_logs = EmptyBag
  /\ resp = Render("GET /login", "login", NoFlash, <<>>)
  /\ \/ /\ challenges = {}
        /\ challenge_participants = EmptyBag
        /\ sqlite_sequence = [users |-> NumMembers, challenges |-> 0]
     \/ /\ challenges = {LegacyChallenge}
        /\ challenge_participants \in {EmptyBag, SetToBag({ParticipantRow(1, 1)})}
        /\ sqlite_sequence = [users |-> NumMembers, challenges |-> 1]

Init == InitAccounts \/ InitChallenges

\* ------------------------------------------------------ POST /registrar
Suspend(k) ==
  /\ BagCardinality(pending) < MaxPending
  /\ pending' = pending (+) SetToBag({k})
Resume(k) ==
  /\ BagIn(k, pending)
  /\ pending' = pending (-) SetToBag({k})

PostRegistrar(s, body) ==
  LET name == Trim(body.name)
      email == NormalizeEmail(body.email)
      password == body.password
      op == "POST /registrar"
  IN  IF name = <<>> \/ email = <<>> \/ password = ""
        THEN /\ resp' = Redirect(op, "/registrar",
                          Flash("error", "Preencha todos os campos obrigatorios."))
             /\ UNCHANGED <<dbvars, session, pending>>
      ELSE IF UsersByEmail(email) # {}
        THEN /\ resp' = Redirect(op, "/registrar",
                          Flash("error", "Este email ja esta cadastrado."))
             /\ UNCHANGED <<dbvars, session, pending>>
      ELSE /\ Suspend([op |-> op, sid |-> s, name |-> name, email |-> email,
                       password |-> password])
           /\ UNCHANGED <<dbvars, session, resp>>

\* after `await bcrypt.hash`: the INSERT INTO users
PostRegistrarInsert(k) ==
  /\ k.op = "POST /registrar"
  /\ Resume(k)
  /\ IF ~UsersEmailUnique(k.email)
       THEN /\ resp' = Throw(k.op, "SQLITE_CONSTRAINT_UNIQUE")
            /\ UNCHANGED <<dbvars, session>>
       ELSE /\ sqlite_sequence.users < MaxUsers
            /\ users' = users \cup
                 {[id |-> sqlite_sequence.users + 1, name |-> k.name, email |-> k.email,
                   password_hash |-> BcryptHash(k.password), role |-> "participant",
                   goal_exercises |-> 0]}
            /\ sqlite_sequence' = [sqlite_sequence EXCEPT !.users = @ + 1]
            /\ resp' = Redirect(k.op, "/login",
                         Flash("success", "Cadastro criado com sucesso. Faca login."))
            /\ UNCHANGED <<challenges, challenge_participants, exercise_logs, session>>

\* ----------------------------------------------------------- POST /login
PostLogin(s, body) ==
  LET email == NormalizeEmail(body.email)
      password == body.password
      op == "POST /login"
  IN  IF UsersByEmail(email) = {}
        THEN /\ resp' = Redirect(op, "/login", Flash("error", "E-mail ou senha invalidos."))
             /\ UNCHANGED <<dbvars, session, pending>>
      ELSE /\ Suspend([op |-> op, sid |-> s, email |-> email,
                       user |-> FirstRow(UsersByEmail(email)), password |-> password])
           /\ UNCHANGED <<dbvars, session, resp>>

\* const ok = await bcrypt.compare(password, user.password_hash)
PasswordOkUnchecked(k) == TRUE
PasswordOk(k) == BcryptCompare(k.password, k.user.password_hash)

\* after `await bcrypt.compare`
PostLoginCompare(k) ==
  /\ k.op = "POST /login"
  /\ Resume(k)
  /\ IF ~PasswordOk(k)
       THEN /\ resp' = Redirect(k.op, "/login", Flash("error", "E-mail ou senha invalidos."))
            /\ UNCHANGED <<dbvars, session>>
       ELSE /\ session' = [session EXCEPT ![k.sid] = SessionOf(k.user)]
            /\ resp' = Redirect(k.op, "/dashboard", NoFlash)
            /\ UNCHANGED dbvars

\* ----------------------------------------------------------- GET /logout
GetLogout(s) ==
  /\ session' = [session EXCEPT ![s] = NoSession]
  /\ resp' = Redirect("GET /logout", "/login", NoFlash)
  /\ UNCHANGED <<dbvars, pending>>

\* -------------------------------------------------------- GET /dashboard
VisibleChallenges(uid) ==
  {c \in challenges : (c.creator_id = uid \/ IsParticipant(uid, c.id)) /\ c.status = "active"}
CreatorChallenges(uid) == {c \in challenges : c.creator_id = uid /\ c.status = "active"}
UserGoalOf(uid) ==
  IF UsersById(uid) = {} THEN 0 ELSE FirstRow(UsersById(uid)).goal_exercises
\* every progressPercent of the page: activeStats (the first visible challenge in the
\* order of end_date, which any visible challenge can be) and the creator cards
DashboardPercents(uid) ==
  {ProgressPercent(UserTotal(uid, c.id), c.goal_count) :
     c \in VisibleChallenges(uid) \cup CreatorChallenges(uid)}
DashboardGoalProgress(uid) == GoalProgress(UserExerciseCount(uid), UserGoalOf(uid))

GetDashboard(s) ==
  LET uid == session[s].userId
      op == "GET /dashboard"
  IN  /\ IF ~requireAuth(s)
           THEN resp' = Redirect(op, "/login", NoFlash)
           ELSE resp' = Render(op, "dashboard", NoFlash,
                          [progressPercent |-> DashboardPercents(uid),
                           goalProgress |-> DashboardGoalProgress(uid)])
      /\ UNCHANGED <<dbvars, session, pending>>

\* ------------------------------------------------------- POST /atividades
\* one INSERT per row of challenge_participants of the user, in one transaction
FanOutFirstOnly(uid) ==
  LET first == CHOOSE c \in JoinedChallenges(uid) : \A d \in JoinedChallenges(uid) : c <= d
  IN  SetToBag({LogRow(uid, first, 1)})
FanOut(uid) ==
  LET rows == {p \in BagToSet(challenge_participants) : p.user_id = uid}
  IN  [e \in {LogRow(uid, p.challenge_id, 1) : p \in rows} |->
         CopiesIn(ParticipantRow(uid, e.challenge_id), challenge_participants)]

PostAtividades(s, activity) ==
  LET uid == session[s].userId
      op == "POST /atividades"
  IN  /\ UNCHANGED <<users, challenges, challenge_participants, sqlite_sequence,
                     session, pending>>
      /\ IF ~requireAuth(s)
           THEN resp' = Redirect(op, "/login", NoFlash) /\ UNCHANGED exercise_logs
         ELSE IF activity = ""
           THEN /\ resp' = Redirect(op, "/dashboard",
                             Flash("error", "Informe o tipo de exercicio."))
                /\ UNCHANGED exercise_logs
         ELSE IF JoinedChallenges(uid) = {}
           THEN /\ resp' = Redirect(op, "/dashboard",
                             Flash("info", "Voce nao participa de nenhum desafio."))
                /\ UNCHANGED exercise_logs
         ELSE IF ~(ForeignKeyUser(uid) /\ \A c \in JoinedChallenges(uid) : ForeignKeyChallenge(c))
           THEN resp' = Throw(op, "SQLITE_CONSTRAINT_FOREIGNKEY") /\ UNCHANGED exercise_logs
         ELSE /\ BagCardinality(exercise_logs) + BagCardinality(FanOut(uid)) <= MaxLogs
              /\ exercise_logs' = exercise_logs (+) FanOut(uid)
              /\ resp' = Redirect(op, "/dashboard",
                           Flash("success", "Atividade registrada em todos os desafios."))

\* ------------------------------------------------------ POST /perfil/meta
PostPerfilMeta(s, goal) ==
  LET uid == session[s].userId
      op == "POST /perfil/meta"
  IN  /\ UNCHANGED <<challenges, challenge_participants, exercise_logs, sqlite_sequence,
                     session, pending>>
      /\ IF ~requireAuth(s)
           THEN resp' = Redirect(op, "/login", NoFlash) /\ UNCHANGED users
         ELSE IF goal < 0
           THEN /\ resp' = Redirect(op, "/perfil", Flash("error", "Informe uma meta valida."))
                /\ UNCHANGED users
         ELSE /\ users' = {IF u.id = uid THEN [u EXCEPT !.goal_exercises = goal] ELSE u :
                             u \in users}
              /\ resp' = Redirect(op, "/perfil", Flash("success", "Meta atualizada."))

\* ----------------------------------------- POST /admin/usuarios/:id/reset
PostAdminReset(s, id, tempPassword) ==
  LET op == "POST /admin/usuarios/:id/reset"
  IN  IF ~requireAuth(s)
        THEN resp' = Redirect(op, "/login", NoFlash) /\ UNCHANGED <<dbvars, session, pending>>
        ELSE /\ Suspend([op |-> op, sid |-> s, userId |-> id, tempPassword |-> tempPassword])
             /\ UNCHANGED <<dbvars, session, resp>>

\* after `await bcrypt.hash`: UPDATE users SET password_hash = ? WHERE id = ?
PostAdminResetUpdate(k) ==
  /\ k.op = "POST /admin/usuarios/:id/reset"
  /\ Resume(k)
  /\ UNCHANGED <<challenges, challenge_participants, exercise_logs, sqlite_sequence, session>>
  /\ users' = {IF u.id = k.userId THEN [u EXCEPT !.password_hash = BcryptHash(k.tempPassword)]
                                  ELSE u : u \in users}
  /\ IF UsersById(k.userId) = {}
       THEN resp' = Redirect(k.op, "/admin/usuarios", Flash("error", "Usuario nao encontrado."))
       ELSE resp' = Redirect(k.op, "/admin/usuarios",
                      <<"success", "Senha temporaria: ", k.tempPassword>>)

\* --------------------------------------- POST /admin/usuarios/:id/excluir
\* the transaction deleteUser: the rows left when every statement has run
DeleteUserLogsKept(target) ==
  LET created == {c.id : c \in {d \in challenges : d.creator_id = target}}
  IN  {e \in BagToSet(exercise_logs) : e.challenge_id \notin created}
DeleteUserLogs(target) ==
  LET created == {c.id : c \in {d \in challenges : d.creator_id = target}}
  IN  {e \in BagToSet(exercise_logs) : e.challenge_id \notin created /\ e.user_id # target}
DeleteUserParticipants(target) ==
  LET created == {c.id : c \in {d \in challenges : d.creator_id = target}}
  IN  {p \in BagToSet(challenge_participants) :
         p.challenge_id \notin created /\ p.user_id # target}
Restrict(bag, rows) == [r \in rows |-> CopiesIn(r, bag)]

PostAdminExcluir(s, id) ==
  LET op == "POST /admin/usuarios/:id/excluir"
      logsLeft == Restrict(exercise_logs, DeleteUserLogs(id))
      partsLeft == Restrict(challenge_participants, DeleteUserParticipants(id))
      challengesLeft == {c \in challenges : c.creator_id # id}
      \* DELETE FROM users fails while a row still refers to the user
      referenced ==
        \/ \E e \in DOMAIN logsLeft : e.user_id = id
        \/ \E p \in DOMAIN partsLeft : p.user_id = id
        \/ \E c \in challengesLeft : c.creator_id = id
  IN  /\ UNCHANGED <<sqlite_sequence, session, pending>>
      /\ IF ~requireAuth(s)
           THEN /\ resp' = Redirect(op, "/login", NoFlash)
                /\ UNCHANGED <<users, challenges, challenge_participants, exercise_logs>>
         ELSE IF id = session[s].userId
           THEN /\ resp' = Redirect(op, "/admin/usuarios",
                             Flash("error", "Voce nao pode excluir seu proprio usuario."))
                /\ UNCHANGED <<users, challenges, challenge_participants, exercise_logs>>
         ELSE IF referenced
           THEN /\ resp' = Throw(op, "SQLITE_CONSTRAINT_FOREIGNKEY")
                /\ UNCHANGED <<users, challenges, challenge_participants, exercise_logs>>
         ELSE /\ exercise_logs' = logsLeft
              /\ challenge_participants' = partsLeft
              /\ challenges' = challengesLeft
              /\ users' = {u \in users : u.id # id}
              /\ resp' = Redirect(op, "/admin/usuarios", Flash("success", "Usuario excluido."))

\* INSERT INTO challenge_participants: the constraints, then the row
CanInsertParticipant(uid, cid) ==
  ParticipantsUnique(uid, cid) /\ ForeignKeyUser(uid) /\ ForeignKeyChallenge(cid)
ParticipantError(uid, cid) ==
  IF ~ParticipantsUnique(uid, cid) THEN "SQLITE_CONSTRAINT_UNIQUE"
                                   ELSE "SQLITE_CONSTRAINT_FOREIGNKEY"
WithParticipant(uid, cid) == challenge_participants (+) SetToBag({ParticipantRow(uid, cid)})

\* -------------------------------------------------- POST /challenges/novo
generateInviteCode == InviteCodes

\* the second INSERT of the handler: the creator joins the new challenge
EnrollCreatorSkipped(uid, id) == challenge_participants
EnrollCreator(uid, id) == WithParticipant(uid, id)

PostChallengesNovo(s, body) ==
  LET uid == session[s].userId
      description == body.description
      goalCount == body.goal_count
      groupGoal == body.group_goal
      op == "POST /challenges/novo"
      id == sqlite_sequence.challenges + 1
  IN  /\ UNCHANGED <<users, exercise_logs, session, pending>>
      /\ IF ~requireAuth(s)
           THEN /\ resp' = Redirect(op, "/login", NoFlash)
                /\ UNCHANGED <<challenges, challenge_participants, sqlite_sequence>>
         ELSE IF description = "" \/ goalCount = 0
           THEN /\ resp' = Redirect(op, "/challenges/novo",
                             Flash("error", "Descricao, datas e meta sao obrigatorios."))
                /\ UNCHANGED <<challenges, challenge_participants, sqlite_sequence>>
         ELSE IF groupGoal # <<>> /\ groupGoal[1] <= 0
           THEN /\ resp' = Redirect(op, "/challenges/novo",
                             Flash("error", "Meta do grupo deve ser um numero valido."))
                /\ UNCHANGED <<challenges, challenge_participants, sqlite_sequence>>
         ELSE IF ~ForeignKeyUser(uid)
           THEN /\ resp' = Throw(op, "SQLITE_CONSTRAINT_FOREIGNKEY")
                /\ UNCHANGED <<challenges, challenge_participants, sqlite_sequence>>
         ELSE /\ id <= MaxChallenges
              /\ \E inviteCode \in generateInviteCode :
                   challenges' = challenges \cup
                     {[id |-> id, creator_id |-> uid, status |-> "active",
                       goal_count |-> goalCount, invite_code |-> inviteCode]}
              /\ sqlite_sequence' = [sqlite_sequence EXCEPT !.challenges = id]
              /\ challenge_participants' = EnrollCreator(uid, id)
              /\ resp' = Redirect(op, ChallengePath(id), Flash("success", "Desafio criado!"))

\* --------------------------------------------------- GET /challenges/:id
\* `!challenge.invite_code`: NULL and the empty string are falsy
NeedsInviteCodeAlways(code) == TRUE
NeedsInviteCode(code) == code \in {NULL, ""}

MayViewAnyone(uid, challenge) == TRUE
MayView(uid, challenge) == IsParticipant(uid, challenge.id) \/ challenge.creator_id = uid

GetChallenge(s, id) ==
  LET uid == session[s].userId
      op == "GET /challenges/:id"
  IN  /\ UNCHANGED <<users, exercise_logs, sqlite_sequence, session, pending>>
      /\ IF ~requireAuth(s)
           THEN /\ resp' = Redirect(op, "/login", NoFlash)
                /\ UNCHANGED <<challenges, challenge_participants>>
         ELSE IF ChallengesById(id) = {}
           THEN /\ resp' = Redirect(op, "/dashboard", Flash("error", "Desafio nao encontrado."))
                /\ UNCHANGED <<challenges, challenge_participants>>
         ELSE
           LET challenge == FirstRow(ChallengesById(id))
               hasJoined == IsParticipant(uid, id)
               isOwner == challenge.creator_id = uid
               flash == IF challenge.status # "active"
                          THEN Flash("info", "Este desafio esta encerrado.")
                          ELSE NoFlash
           IN  IF ~MayView(uid, challenge)
                 THEN /\ resp' = Redirect(op, "/dashboard",
                                   Flash("error", "Voce nao participa deste desafio."))
                      /\ UNCHANGED <<challenges, challenge_participants>>
               ELSE IF isOwner /\ ~hasJoined /\ ~CanInsertParticipant(uid, id)
                 THEN /\ resp' = Throw(op, ParticipantError(uid, id))
                      /\ UNCHANGED <<challenges, challenge_participants>>
               ELSE /\ challenge_participants' =
                         IF isOwner /\ ~hasJoined THEN WithParticipant(uid, id)
                                                  ELSE challenge_participants
                    /\ IF NeedsInviteCode(challenge.invite_code)
                         THEN \E newCode \in generateInviteCode :
                                challenges' = (challenges \ {challenge})
                                  \cup {[challenge EXCEPT !.invite_code = newCode]}
                         ELSE challenges' = challenges
                    /\ resp' = Render(op, "challenge", flash,
                                    [challenge |-> id, leaderboard |-> LeaderboardRows(id)'])

\* ------------------------------------------ POST /challenges/:id/adicionar
MayAdd(uid, challenge) == IsParticipant(uid, challenge.id) \/ challenge.creator_id = uid

PostAdicionar(s, id, rawEmail) ==
  LET uid == session[s].userId
      op == "POST /challenges/:id/adicionar"
      email == NormalizeEmail(rawEmail)
  IN  /\ UNCHANGED <<users, challenges, exercise_logs, sqlite_sequence, session, pending>>
      /\ IF ~requireAuth(s)
           THEN resp' = Redirect(op, "/login", NoFlash) /\ UNCHANGED challenge_participants
         ELSE IF email = <<>>
           THEN /\ resp' = Redirect(op, ChallengePath(id),
                             Flash("error", "Informe o email do usuario."))
                /\ UNCHANGED challenge_participants
         ELSE IF ChallengesById(id) = {}
           THEN /\ resp' = Redirect(op, "/dashboard", Flash("error", "Desafio nao encontrado."))
                /\ UNCHANGED challenge_participants
         ELSE
           LET challenge == FirstRow(ChallengesById(id)) IN
           IF challenge.status # "active"
             THEN /\ resp' = Redirect(op, ChallengePath(id),
                               Flash("error", "Este desafio esta encerrado."))
                  /\ UNCHANGED challenge_participants
           ELSE IF ~MayAdd(uid, challenge)
             THEN /\ resp' = Redirect(op, "/dashboard",
                               Flash("error", "Voce nao pode adicionar usuarios neste desafio."))
                  /\ UNCHANGED challenge_participants
           ELSE IF UsersByEmail(email) = {}
             THEN /\ resp' = Redirect(op, ChallengePath(id),
                               Flash("error", "Usuario nao encontrado."))
                  /\ UNCHANGED challenge_participants
           ELSE
             LET user == FirstRow(UsersByEmail(email)) IN
             IF IsParticipant(user.id, id)
               THEN /\ resp' = Redirect(op, ChallengePath(id),
                                 IF user.id = challenge.creator_id
                                   THEN Flash("info", "Este usuario ja participa do desafio.")
                                   ELSE Flash("info", "Usuario ja participa deste desafio."))
                    /\ UNCHANGED challenge_participants
             ELSE IF ~CanInsertParticipant(user.id, id)
               THEN /\ resp' = Throw(op, ParticipantError(user.id, id))
                    /\ UNCHANGED challenge_participants
             ELSE /\ challenge_participants' = WithParticipant(user.id, id)
                  /\ resp' = Redirect(op, ChallengePath(id),
                               IF user.id = challenge.creator_id
                                 THEN Flash("success", "Criador adicionado como participante.")
                                 ELSE Flash("success", "Usuario adicionado ao desafio."))

\* ------------------------------------------------------ GET /convite/:code
GetConvite(s, code) ==
  LET uid == session[s].userId
      op == "GET /convite/:code"
  IN  /\ UNCHANGED <<users, challenges, exercise_logs, sqlite_sequence, session, pending>>
      /\ IF ~requireAuth(s)
           THEN resp' = Redirect(op, "/login", NoFlash) /\ UNCHANGED challenge_participants
         ELSE IF ChallengesByCode(code) = {}
           THEN /\ resp' = Redirect(op, "/dashboard", Flash("error", "Convite invalido."))
                /\ UNCHANGED challenge_participants
         ELSE
           LET challenge == FirstRow(ChallengesByCode(code)) IN
           IF challenge.status # "active"
             THEN /\ resp' = Redirect(op, "/dashboard",
                               Flash("error", "Este desafio esta encerrado."))
                  /\ UNCHANGED challenge_participants
           ELSE IF challenge.creator_id = uid
             THEN /\ resp' = Redirect(op, ChallengePath(challenge.id), NoFlash)
                  /\ UNCHANGED challenge_participants
           ELSE IF IsParticipant(uid, challenge.id)
             THEN /\ resp' = Redirect(op, ChallengePath(challenge.id),
                               Flash("success", "Voce entrou no desafio!"))
                  /\ UNCHANGED challenge_participants
           ELSE IF ~CanInsertParticipant(uid, challenge.id)
             THEN /\ resp' = Throw(op, ParticipantError(uid, challenge.id))
                  /\ UNCHANGED challenge_participants
           ELSE /\ challenge_participants' = WithParticipant(uid, challenge.id)
                /\ resp' = Redirect(op, ChallengePath(challenge.id),
                             Flash("success", "Voce entrou no desafio!"))

\* --------------------------------------------- POST /challenges/:id/entrar
AlreadyJoinedUnchecked(uid, id) == FALSE
AlreadyJoined(uid, id) == IsParticipant(uid, id)

PostEntrar(s, id) ==
  LET uid == session[s].userId
      op == "POST /challenges/:id/entrar"
  IN  /\ UNCHANGED <<users, challenges, exercise_logs, sqlite_sequence, session, pending>>
      /\ IF ~requireAuth(s)
           THEN resp' = Redirect(op, "/login", NoFlash) /\ UNCHANGED challenge_participants
         ELSE IF ChallengesById(id) = {} \/ FirstRow(ChallengesById(id)).status # "active"
           THEN /\ resp' = Redirect(op, ChallengePath(id),
                             Flash("error", "Este desafio esta encerrado."))
                /\ UNCHANGED challenge_participants
         ELSE IF AlreadyJoined(uid, id)
           THEN /\ resp' = Redirect(op, ChallengePath(id),
                             Flash("info", "Voce ja participa deste desafio."))
                /\ UNCHANGED challenge_participants
         ELSE IF ~CanInsertParticipant(uid, id)
           THEN /\ resp' = Throw(op, ParticipantError(uid, id))
                /\ UNCHANGED challenge_participants
         ELSE /\ challenge_participants' = WithParticipant(uid, id)
              /\ resp' = Redirect(op, ChallengePath(id),
                           Flash("success", "Participacao confirmada. Bora treinar!"))

\* ------------------------------------------------ POST /challenges/:id/log
MayLogAnyone(uid, id) == TRUE
MayLog(uid, id) == IsParticipant(uid, id)

PostLog(s, id, activity) ==
  LET uid == session[s].userId
      op == "POST /challenges/:id/log"
  IN  /\ UNCHANGED <<users, challenges, challenge_participants, sqlite_sequence,
                     session, pending>>
      /\ IF ~requireAuth(s)
           THEN resp' = Redirect(op, "/login", NoFlash) /\ UNCHANGED exercise_logs
         ELSE IF activity = ""
           THEN /\ resp' = Redirect(op, ChallengePath(id),
                             Flash("error", "Informe o tipo de exercicio."))
                /\ UNCHANGED exercise_logs
         ELSE IF ~MayLog(uid, id)
           THEN /\ resp' = Redirect(op, ChallengePath(id),
                             Flash("error", "Entre no desafio antes de registrar treinos."))
                /\ UNCHANGED exercise_logs
         ELSE IF ~(ForeignKeyUser(uid) /\ ForeignKeyChallenge(id))
           THEN resp' = Throw(op, "SQLITE_CONSTRAINT_FOREIGNKEY") /\ UNCHANGED exercise_logs
         ELSE /\ BagCardinality(exercise_logs) < MaxLogs
              /\ exercise_logs' = exercise_logs (+) SetToBag({LogRow(uid, id, 1)})
              /\ resp' = Redirect(op, ChallengePath(id), Flash("success", "Treino registrado!"))

\* ------------------------------------------- POST /challenges/:id/encerrar
IsCreatorUnchecked(uid, challenge) == TRUE
IsCreator(uid, challenge) == challenge.creator_id = uid

PostEncerrar(s, id) ==
  LET uid == session[s].userId
      op == "POST /challenges/:id/encerrar"
  IN  /\ UNCHANGED <<users, challenge_participants, exercise_logs, sqlite_sequence,
                     session, pending>>
      /\ IF ~requireAuth(s)
           THEN resp' = Redirect(op, "/login", NoFlash) /\ UNCHANGED challenges
         ELSE IF ChallengesById(id) = {}
           THEN /\ resp' = Redirect(op, "/dashboard", Flash("error", "Desafio nao encontrado."))
                /\ UNCHANGED challenges
         ELSE IF ~IsCreator(uid, FirstRow(ChallengesById(id)))
           THEN /\ resp' = Redirect(op, ChallengePath(id),
                             Flash("error", "Voce nao pode encerrar este desafio."))
                /\ UNCHANGED challenges
         ELSE /\ challenges' = {IF c.id = id THEN [c EXCEPT !.status = "closed"] ELSE c :
                                  c \in challenges}
              /\ resp' = Redirect(op, "/perfil", Flash("success", "Desafio encerrado."))

\* -------------------------------------------- POST /challenges/:id/excluir
\* DELETE FROM exercise_logs WHERE challenge_id = ?: the rows left
ExcluirLogsKept(id) == BagToSet(exercise_logs)
ExcluirLogs(id) == {e \in BagToSet(exercise_logs) : e.challenge_id # id}
\* DELETE FROM challenge_participants WHERE challenge_id = ?: the rows left
ExcluirParticipants(id) == {p \in BagToSet(challenge_participants) : p.challenge_id # id}

PostExcluir(s, id) ==
  LET uid == session[s].userId
      op == "POST /challenges/:id/excluir"
  IN  /\ UNCHANGED <<users, sqlite_sequence, session, pending>>
      /\ IF ~requireAuth(s)
           THEN /\ resp' = Redirect(op, "/login", NoFlash)
                /\ UNCHANGED <<challenges, challenge_participants, exercise_logs>>
         ELSE IF ChallengesById(id) = {}
           THEN /\ resp' = Redirect(op, "/dashboard", Flash("error", "Desafio nao encontrado."))
                /\ UNCHANGED <<challenges, challenge_participants, exercise_logs>>
         ELSE IF ~IsCreator(uid, FirstRow(ChallengesById(id)))
           THEN /\ resp' = Redirect(op, ChallengePath(id),
                             Flash("error", "Voce nao pode excluir este desafio."))
                /\ UNCHANGED <<challenges, challenge_participants, exercise_logs>>
         ELSE /\ exercise_logs' = Restrict(exercise_logs, ExcluirLogs(id))
              /\ challenge_participants' =
                   Restrict(challenge_participants, ExcluirParticipants(id))
              /\ challenges' = {c \in challenges : c.id # id}
              /\ resp' = Redirect(op, "/dashboard", Flash("success", "Desafio excluido."))

\* ------------------------------------------------------------------- Next
\* the :id of a request about a user: an id the table has given, its row deleted or not
KnownUserIds == 1..sqlite_sequence.users

Registrar == \E s \in DOMAIN session, body \in RegistrarBodies : PostRegistrar(s, body)
RegistrarInsert == \E k \in BagToSet(pending) : PostRegistrarInsert(k)
Login == \E s \in DOMAIN session, body \in LoginBodies : PostLogin(s, body)
LoginCompare == \E k \in BagToSet(pending) : PostLoginCompare(k)
Logout == \E s \in DOMAIN session : GetLogout(s)
Dashboard == \E s \in DOMAIN session : GetDashboard(s)
Atividades == \E s \in DOMAIN session, a \in Activities : PostAtividades(s, a)
PerfilMeta == \E s \in DOMAIN session, g \in UserGoals : PostPerfilMeta(s, g)
AdminReset ==
  \E s \in DOMAIN session, id \in KnownUserIds, t \in TempPasswords : PostAdminReset(s, id, t)
AdminResetUpdate == \E k \in BagToSet(pending) : PostAdminResetUpdate(k)
AdminExcluir == \E s \in DOMAIN session, id \in KnownUserIds : PostAdminExcluir(s, id)
ChallengesNovo == \E s \in DOMAIN session, body \in NovoBodies : PostChallengesNovo(s, body)
Challenge == \E s \in DOMAIN session, id \in ChallengeIds : GetChallenge(s, id)
Adicionar ==
  \E s \in DOMAIN session, id \in ChallengeIds, e \in AddEmails : PostAdicionar(s, id, e)
Convite == \E s \in DOMAIN session, code \in InviteCodes \cup {"bad"} : GetConvite(s, code)
Entrar == \E s \in DOMAIN session, id \in ChallengeIds : PostEntrar(s, id)
Log == \E s \in DOMAIN session, id \in ChallengeIds, a \in Activities : PostLog(s, id, a)
Encerrar == \E s \in DOMAIN session, id \in ChallengeIds : PostEncerrar(s, id)
Excluir == \E s \in DOMAIN session, id \in ChallengeIds : PostExcluir(s, id)

\* the requests about accounts
NextAccounts ==
  \/ Registrar
  \/ RegistrarInsert
  \/ Login
  \/ LoginCompare
  \/ Logout
  \/ AdminReset
  \/ AdminResetUpdate
  \/ AdminExcluir

\* the requests of logged-in users about challenges
NextChallenges ==
  \/ Dashboard
  \/ Atividades
  \/ AdminExcluir
  \/ ChallengesNovo
  \/ Challenge
  \/ Adicionar
  \/ Convite
  \/ Entrar
  \/ Log
  \/ Encerrar
  \/ Excluir

Next == NextAccounts \/ NextChallenges \/ PerfilMeta

Spec == Init /\ [][Next]_vars
\* The whole of Spec is beyond TLC. It is checked in parts that share the tables:
\* SpecAccounts, the requests that change the users and the sessions;
\* SpecChallenges, the requests of users who are registered and logged in; and
\* SpecEnrolment (below), the enrolment routes with a third registered user.
SpecAccounts == InitAccounts /\ [][NextAccounts]_vars
SpecChallenges == InitChallenges /\ [][NextChallenges]_vars

\* The enrolment routes over a fresh database: one registered user more than there are
\* sessions, so that a user who is in no challenge is there to be added or invited.
InitEnrolment ==
  /\ users = {Member(i) : i \in 1..(NumMembers + 1)}
  /\ session = [s \in 1..NumMembers |-> SessionOf(Member(s))]
  /\ pending = EmptyBag
  /\ exercise_logs = EmptyBag
  /\ resp = Render("GET /login", "login", NoFlash, <<>>)
  /\ challenges = {}
  /\ challenge_participants = EmptyBag
  /\ sqlite_sequence = [users |-> NumMembers + 1, challenges |-> 0]

NextEnrolment ==
  \/ ChallengesNovo
  \/ Adicionar
  \/ Convite
  \/ Entrar
  \/ Encerrar

SpecEnrolment == InitEnrolment /\ [][NextEnrolment]_vars

\* ================================================================= claims
CountRows(bag, rows) == BagCardinality(Restrict(bag, rows))
Authenticated(s) == session[s].userId # 0

\* C1: the participants table holds at most one row per (user, challenge) pair in every
\* reachable state, and a join (POST /challenges/:id/entrar) by a user who is already
\* enrolled is answered by the redirect and leaves the table as it was.
C1_OneRowPerPair ==
  \A p \in BagToSet(challenge_participants) : CopiesIn(p, challenge_participants) = 1
C1_JoinTwice ==
  \A s \in DOMAIN session, id \in ChallengeIds :
    (/\ resp'.op = "POST /challenges/:id/entrar"
     /\ Authenticated(s)
     /\ BagIn(ParticipantRow(session[s].userId, id), challenge_participants)
     /\ PostEntrar(s, id))
    => /\ challenge_participants' = challenge_participants
       /\ resp'.kind = "redirect"
C1_ParticipantsUnique == [](C1_OneRowPerPair) /\ [][C1_JoinTwice]_vars
C1_Witness ==
  /\ resp.op = "POST /challenges/:id/entrar"
  /\ resp.flash = Flash("info", "Voce ja participa deste desafio.")
  /\ BagCardinality(challenge_participants) >= 2

\* C2: no two users share an email in any reachable state, and a registration whose
\* email, trimmed and lower-cased, is the email of an existing user creates no user row,
\* whether it is rejected at the existence check or at the INSERT after the await.
C2_EmailsDistinct == \A u \in users, v \in users : u.email = v.email => u = v
C2_DuplicateRejected ==
  /\ \A s \in DOMAIN session, body \in RegistrarBodies :
       (/\ resp'.op = "POST /registrar" \/ pending' # pending
        /\ \E u \in users : u.email = ToLowerCase(Trim(body.email))
        /\ PostRegistrar(s, body))
       => users' = users /\ pending' = pending
  /\ \A k \in BagToSet(pending) :
       (/\ k.op = "POST /registrar"
        /\ \E u \in users : u.email = k.email
        /\ PostRegistrarInsert(k))
       => users' = users
C2_DuplicateEmail == [](C2_EmailsDistinct) /\ [][C2_DuplicateRejected]_vars
C2_Witness ==
  /\ resp.op = "POST /registrar"
  /\ resp.kind = "throw"
  /\ Cardinality(users) >= 1

\* C3: POST /challenges/:id/encerrar and POST /challenges/:id/excluir issued by an
\* authenticated user who is not the creator of the challenge leave the challenges, the
\* participants and the logs unchanged.
C3_NotCreator ==
  \A s \in DOMAIN session, id \in ChallengeIds :
    (/\ resp'.op \in {"POST /challenges/:id/encerrar", "POST /challenges/:id/excluir"}
     /\ Authenticated(s)
     /\ \E c \in challenges : c.id = id /\ c.creator_id # session[s].userId
     /\ PostEncerrar(s, id) \/ PostExcluir(s, id))
    => UNCHANGED <<challenges, challenge_participants, exercise_logs>>
C3_OnlyCreator == [][C3_NotCreator]_vars
C3_Witness ==
  /\ resp.op \in {"POST /challenges/:id/encerrar", "POST /challenges/:id/excluir"}
  /\ resp.flash \in {Flash("error", "Voce nao pode encerrar este desafio."),
                     Flash("error", "Voce nao pode excluir este desafio.")}
  /\ exercise_logs # EmptyBag

\* C4: POST /admin/usuarios/:id/excluir of a user other than the requester leaves, in
\* the next state, no row of that user, no challenge the user created, and no participant
\* row or log of the user or of a challenge the user created.
C4_Cascade ==
  \A s \in DOMAIN session, id \in KnownUserIds :
    (/\ resp'.op = "POST /admin/usuarios/:id/excluir"
     /\ Authenticated(s)
     /\ id # session[s].userId
     /\ PostAdminExcluir(s, id))
    => LET created == {c.id : c \in {d \in challenges : d.creator_id = id}}
       IN  /\ \A u \in users' : u.id # id
           /\ \A c \in challenges' : c.creator_id # id /\ c.id \notin created
           /\ \A r \in BagToSet(challenge_participants') :
                r.user_id # id /\ r.challenge_id \notin created
           /\ \A e \in BagToSet(exercise_logs') :
                e.user_id # id /\ e.challenge_id \notin created
C4_DeleteUserCascades == [][C4_Cascade]_vars
C4_Witness ==
  /\ resp.op = "POST /admin/usuarios/:id/excluir"
  /\ resp.flash = Flash("success", "Usuario excluido.")
  /\ Cardinality(users) < sqlite_sequence.users
  /\ Cardinality(challenges) < sqlite_sequence.challenges
  /\ exercise_logs # EmptyBag

\* C5: the leaderboard of every challenge has exactly one row per participant of the
\* challenge, and the total of a user's row is the number of exercise-log rows of that
\* user in that challenge; GET /challenges/:id shows that leaderboard.
C5_Expected(cid) ==
  [uid \in {r.user_id : r \in ParticipantsOf(cid)} |->
     CountRows(exercise_logs,
               {e \in BagToSet(exercise_logs) : e.user_id = uid /\ e.challenge_id = cid})]
C5_LeaderboardTotals ==
  /\ \A c \in challenges : LeaderboardRows(c.id) = C5_Expected(c.id)
  /\ (resp.op = "GET /challenges/:id" /\ resp.kind = "render")
       => resp.data.leaderboard = C5_Expected(resp.data.challenge)
C5_Witness ==
  /\ resp.op = "GET /challenges/:id"
  /\ resp.kind = "render"
  /\ \E u \in DOMAIN resp.data.leaderboard, v \in DOMAIN resp.data.leaderboard :
       /\ resp.data.leaderboard[u] = 1
       /\ resp.data.leaderboard[v] = 0
       /\ UserExerciseCount(u) = 2

\* C6: every progressPercent of the dashboard, and the goalProgress, is an integer
\* between 0 and 100.
C6_PercentInRange ==
  (resp.op = "GET /dashboard" /\ resp.kind = "render")
    => /\ resp.data.progressPercent \subseteq 0..100
       /\ resp.data.goalProgress \in 0..100

\* C7: GET /challenges/:id by an authenticated user who is neither the creator nor a
\* participant of the challenge redirects to the dashboard with an error flash and
\* changes no row of any table.
C7_Outsider ==
  \A s \in DOMAIN session, id \in ChallengeIds :
    (/\ resp'.op = "GET /challenges/:id"
     /\ Authenticated(s)
     /\ \E c \in challenges : c.id = id /\ c.creator_id # session[s].userId
     /\ ~BagIn(ParticipantRow(session[s].userId, id), challenge_participants)
     /\ GetChallenge(s, id))
    => /\ resp'.kind = "redirect"
       /\ resp'.to = "/dashboard"
       /\ resp'.flash # NoFlash
       /\ resp'.flash[1] = "error"
       /\ UNCHANGED dbvars
C7_ViewGated == [][C7_Outsider]_vars
C7_Witness ==
  /\ resp.op = "GET /challenges/:id"
  /\ resp.flash = Flash("error", "Voce nao participa deste desafio.")

\* C8: POST /login with an unknown email, or with a password that does not match the
\* hash read for the user with that email, leaves every session as it was and redirects
\* to /login with an error flash; a session's identity changes only to that of the user
\* a login found by its email and whose hash matches the password given (or, by
\* GET /logout, to none).
C8_LoginRejected ==
  /\ \A s \in DOMAIN session, body \in LoginBodies :
       (/\ resp'.op = "POST /login"
        /\ ~\E u \in users : u.email = ToLowerCase(Trim(body.email))
        /\ PostLogin(s, body))
       => /\ session' = session
          /\ resp' = Redirect("POST /login", "/login",
                              Flash("error", "E-mail ou senha invalidos."))
  /\ \A k \in BagToSet(pending) :
       (/\ k.op = "POST /login"
        /\ k.user.password_hash # BcryptHash(k.password)
        /\ PostLoginCompare(k))
       => /\ session' = session
          /\ resp' = Redirect("POST /login", "/login",
                              Flash("error", "E-mail ou senha invalidos."))
C8_IdentityOnlyByLogin ==
  \A s \in DOMAIN session :
    session'[s] # session[s]
    => \/ session'[s] = NoSession
       \/ \E k \in BagToSet(pending) :
            /\ k.op = "POST /login"
            /\ k.sid = s
            /\ k.user.email = k.email
            /\ k.user.password_hash = BcryptHash(k.password)
            /\ session'[s] = SessionOf(k.user)
C8_WrongPassword == [][C8_LoginRejected /\ C8_IdentityOnlyByLogin]_vars
C8_Witness ==
  /\ resp = Redirect("POST /login", "/login", Flash("error", "E-mail ou senha invalidos."))
  /\ \A body \in LoginBodies :
       ToLowerCase(Trim(body.email)) = <<>> \/ UsersByEmail(ToLowerCase(Trim(body.email))) # {}
  /\ \E s \in DOMAIN session : session[s].userId # 0

\* C9: once the invite_code of a challenge is set (not NULL, not empty), no step changes
\* it for as long as the row of the challenge exists.
C9_CodeKept ==
  \A c \in challenges :
    c.invite_code \notin {NULL, ""}
    => \A d \in challenges' : d.id = c.id => d.invite_code = c.invite_code
C9_InviteCodeStable == [][C9_CodeKept]_vars
C9_Witness ==
  /\ resp.op = "GET /challenges/:id"
  /\ resp.kind = "render"
  /\ \E c \in challenges :
       /\ c.id = LegacyChallenge.id
       /\ c.goal_count = LegacyChallenge.goal_count
       /\ c.invite_code \in InviteCodes

\* C10: no two challenges have the same invite_code that is set.
C10_InviteCodeUnique ==
  \A c \in challenges, d \in challenges :
    (c.invite_code \notin {NULL, ""} /\ c.invite_code = d.invite_code) => c = d

\* C11: POST /challenges/novo that creates a challenge inserts, in the same step, the
\* participant row (creator, challenge) and no other; and the creator's row of a challenge,
\* once there, is there for as long as the challenge exists.  So every challenge that
\* POST /challenges/novo created has its creator among its participants.
C11_NovoEnrolls ==
  \A s \in DOMAIN session, body \in NovoBodies :
    (/\ resp'.op = "POST /challenges/novo"
     /\ challenges' # challenges
     /\ PostChallengesNovo(s, body))
    => \E c \in challenges' \ challenges :
         /\ c.creator_id = session[s].userId
         /\ challenges' = challenges \cup {c}
         /\ challenge_participants' =
              challenge_participants (+) SetToBag({ParticipantRow(c.creator_id, c.id)})
C11_CreatorStaysEnrolled ==
  \A c \in challenges' :
    (\/ \A d \in challenges : d.id # c.id
     \/ BagIn(ParticipantRow(c.creator_id, c.id), challenge_participants))
    => BagIn(ParticipantRow(c.creator_id, c.id), challenge_participants')
C12_Frame ==
  \A s \in DOMAIN session, id \in ChallengeIds :
    (/\ resp'.op = "POST /challenges/:id/excluir"
     /\ Authenticated(s)
     /\ \E c \in challenges : c.id = id /\ c.creator_id = session[s].userId
     /\ PostExcluir(s, id))
    => /\ challenges' = {c \in challenges : c.id # id}
       /\ \A p \in BagToSet(challenge_participants) \cup BagToSet(challenge_participants') :
            CopiesIn(p, challenge_participants') =
              IF p.challenge_id = id THEN 0 ELSE CopiesIn(p, challenge_participants)
       /\ \A e \in BagToSet(exercise_logs) \cup BagToSet(exercise_logs') :
            CopiesIn(e, exercise_logs') =
              IF e.challenge_id = id THEN 0 ELSE CopiesIn(e, exercise_logs)
       /\ users' = users
C12_DeleteChallengeFrame == [][C12_Frame]_vars
C12_Witness ==
  /\ resp.op = "POST /challenges/:id/excluir"
  /\ resp.flash = Flash("success", "Desafio excluido.")
  /\ Cardinality(challenges) = 1
  /\ BagCardinality(exercise_logs) = 1
  /\ BagCardinality(challenge_participants) = 2

\* C13: POST /challenges/:id/adicionar inserts a participant row only when the requester
\* is the creator of the challenge.
C13_AddByCreator ==
  \A s \in DOMAIN session, id \in ChallengeIds, e \in AddEmails :
    (/\ resp'.op = "POST /challenges/:id/adicionar"
     /\ Authenticated(s)
     /\ challenge_participants' # challenge_participants
     /\ PostAdicionar(s, id, e))
    => \E c \in challenges : c.id = id /\ c.creator_id = session[s].userId
C13_AddByOwnerOnly == [][C13_AddByCreator]_vars

\* C14: POST /admin/usuarios/:id/reset and POST /admin/usuarios/:id/excluir issued from a
\* session whose role is 'participant' leave every user, challenge, participant and log
\* row unchanged.
C14_ParticipantChangesNothing ==
  /\ \A s \in DOMAIN session, id \in KnownUserIds :
       (/\ resp'.op = "POST /admin/usuarios/:id/excluir"
        /\ session[s].role = "participant"
        /\ PostAdminExcluir(s, id))
       => UNCHANGED dbvars
  /\ \A k \in BagToSet(pending) :
       (/\ k.op = "POST /admin/usuarios/:id/reset"
        /\ session[k.sid].role = "participant"
        /\ PostAdminResetUpdate(k))
       => UNCHANGED dbvars
C14_AdminOnly == [][C14_ParticipantChangesNothing]_vars

\* C15: every request that does not succeed ends in a redirect with a flash message and
\* changes no table; no handler ends with an uncaught error of the store (a uniqueness
\* or foreign-key violation).
C15_FailuresAreRedirects == resp.kind \in {"redirect", "render"}

\* C16: POST /atividades with a non-empty activity by a user who participates in the set J
\* of challenges inserts, in one step, exactly one exercise log (user, c, 1) for each c
\* in J and nothing else; it inserts nothing when J is empty or the activity is empty; and
\* no log of any reachable state has a count other than 1.
C16_CountOne == \A e \in BagToSet(exercise_logs) : e.count = 1
C16_Step ==
  \A s \in DOMAIN session, a \in Activities :
    (/\ resp'.op = "POST /atividades"
     /\ Authenticated(s)
     /\ PostAtividades(s, a))
    => LET uid == session[s].userId
           J == {p.challenge_id :
                   p \in {q \in BagToSet(challenge_participants) : q.user_id = uid}}
       IN  IF a = "" \/ J = {}
             THEN exercise_logs' = exercise_logs
             ELSE /\ \A c \in J : BagIn([user_id |-> uid, challenge_id |-> c, count |-> 1],
                                         exercise_logs')
                  /\ \A e \in BagToSet(exercise_logs) \cup BagToSet(exercise_logs') :
                       CopiesIn(e, exercise_logs') =
                         CopiesIn(e, exercise_logs)
                           + (IF e.user_id = uid /\ e.challenge_id \in J /\ e.count = 1
                                THEN 1 ELSE 0)
C16_LogFanOut == [](C16_CountOne) /\ [][C16_Step]_vars
C16_Witness ==
  /\ resp.op = "POST /atividades"
  /\ resp.flash = Flash("success", "Atividade registrada em todos os desafios.")
  /\ \E u \in users :
       /\ Cardinality(JoinedChallenges(u.id)) = 2
       /\ \A c \in JoinedChallenges(u.id) : CopiesIn(LogRow(u.id, c, 1), exercise_logs) = 1

\* C17: POST /challenges/:id/log by a user who is not a participant of the challenge
\* inserts no log, and in every reachable state every exercise log (u, c) has a
\* participant row (u, c), an existing user u and an existing challenge c.
C17_LogsHaveParticipant ==
  \A e \in BagToSet(exercise_logs) :
    /\ BagIn(ParticipantRow(e.user_id, e.challenge_id), challenge_participants)
    /\ \E u \in users : u.id = e.user_id
    /\ \E c \in challenges : c.id = e.challenge_id
C17_NotParticipant ==
  \A s \in DOMAIN session, id \in ChallengeIds, a \in Activities :
    (/\ resp'.op = "POST /challenges/:id/log"
     /\ Authenticated(s)
     /\ ~BagIn(ParticipantRow(session[s].userId, id), challenge_participants)
     /\ PostLog(s, id, a))
    => exercise_logs' = exercise_logs
C17_LogsByParticipants == [](C17_LogsHaveParticipant) /\ [][C17_NotParticipant]_vars
C17_Witness ==
  /\ resp.op = "POST /challenges/:id/log"
  /\ resp.flash = Flash("error", "Entre no desafio antes de registrar treinos.")
  /\ exercise_logs # EmptyBag
  /\ Cardinality(challenges) = 2

\* C18: once the status of a challenge is 'closed', no step inserts a participant row
\* for that challenge.
C18_NoNewParticipant ==
  \A c \in challenges :
    c.status = "closed"
    => \A p \in BagToSet(challenge_participants') :
         p.challenge_id = c.id
         => CopiesIn(p, challenge_participants') <= CopiesIn(p, challenge_participants)
C18_ClosedNeverGrows == [][C18_NoNewParticipant]_vars
====
